---- MODULE Spec2Model ----
(***************************************************************************)
(* Berth-shifting simulator (src/app.py): SiloData, RouteOptimizer and the *)
(* optimisation step of main().                                            *)
(*                                                                         *)
(* Amounts (capacity, stock, usage, delivery capacity, cost) are integers, *)
(* as the number inputs of main() produce them.  A detail entry of         *)
(* evaluate_route is a record whose fields stand for the keys of the       *)
(* source's dict:  berth = 'バース', delivery_date = '納入日',             *)
(* delivery_amount = '納入量', available_capacity = '利用可能容量',        *)
(* executable = '実行可能'.  float('inf') is the value Infinity.           *)
(***************************************************************************)
EXTENDS Integers, Sequences, FiniteSets

VARIABLES
    silos,                        \* RouteOptimizer.silos: the dict, as the sequence of its values in insertion order
    berth_change_cost_usd,        \* RouteOptimizer.berth_change_cost_usd
    delivery_capacity_per_berth,  \* RouteOptimizer.delivery_capacity_per_berth
    query,                        \* the last SiloData call and what it returned
    generation,                   \* the last generate_route_plans call and what it returned
    evaluation,                   \* the last evaluate_route call and what it returned
    results                       \* main(): the ranked list `results`

vars == <<silos, berth_change_cost_usd, delivery_capacity_per_berth, query,
          generation, evaluation, results>>

-----------------------------------------------------------------------------
(* Bounds of the model *)

MaxSilos == 3     \* silos of an optimizer whose routes are only generated
MaxBerths == 2    \* silos of an optimizer whose routes are evaluated
MaxCapacity == 2
MaxStock == 2
MaxUsage == 1
MaxDelivery == 2
MaxCost == 1
MaxDays == 3
MaxRouteLen == MaxBerths + 1

\* main(): the defaults and the range of the input widgets
MinBerthChanges == 1
MaxBerthChanges == 5
MinSilos == 2
DefaultCapacity == 5000
DefaultStock == 2000
DefaultUsage == 200

\* get_usd_jpy_rate()
UsdJpyRate == 150

NamePool == <<"A", "B", "C", "D", "E", "F">>

\* No call has been made yet.
NoCall == [op |-> "none"]
Infinity == "inf"

Max(a, b) == IF a >= b THEN a ELSE b
Min(a, b) == IF a <= b THEN a ELSE b

-----------------------------------------------------------------------------
(* SiloData *)

SiloData(name, capacity, current_stock, daily_usage) ==
    [name |-> name, capacity |-> capacity,
     current_stock |-> current_stock, daily_usage |-> daily_usage]

\* Mutant: the clamp at zero stock is missing.
get_available_capacity_unclamped(silo, days_from_start) ==
    silo.capacity - (silo.current_stock - (silo.daily_usage * days_from_start))

\* Mutant: the usage is added to the stock instead of drawn from it.
get_available_capacity_growing(silo, days_from_start) ==
    LET projected_stock == Max(0, silo.current_stock + (silo.daily_usage * days_from_start))
    IN  silo.capacity - projected_stock

get_available_capacity(silo, days_from_start) ==
    LET projected_stock == Max(0, silo.current_stock - (silo.daily_usage * days_from_start))
    IN  silo.capacity - projected_stock

\* Mutant: the required capacity must be strictly exceeded.
is_available_strict(silo, days_from_start, required_capacity) ==
    get_available_capacity(silo, days_from_start) > required_capacity

is_available(silo, days_from_start, required_capacity) ==
    get_available_capacity(silo, days_from_start) >= required_capacity

\* The silos the data model admits: non-negative amounts, current_stock <= capacity not enforced.
SiloValues(name) ==
    { SiloData(name, c, s, u) : c \in 0..MaxCapacity, s \in 0..MaxStock, u \in 0..MaxUsage }

\* silos[berth_name]
Lookup(s, berth_name) ==
    s[CHOOSE i \in 1..Len(s) : s[i].name = berth_name]

silo_names(s) == [i \in 1..Len(s) |-> s[i].name]

-----------------------------------------------------------------------------
(* RouteOptimizer.generate_route_plans *)

RECURSIVE Concat(_)
\* The concatenation of a sequence of sequences.
Concat(ss) == IF ss = <<>> THEN <<>> ELSE Head(ss) \o Concat(Tail(ss))

RECURSIVE combinations(_, _)
\* itertools.combinations(names, r): the r-element subsequences of names, in lexicographic order of positions.
combinations(names, r) ==
    IF r = 0 THEN << <<>> >>
    ELSE IF Len(names) < r THEN <<>>
    ELSE LET with == combinations(Tail(names), r - 1)
         IN  [i \in 1..Len(with) |-> <<Head(names)>> \o with[i]]
             \o combinations(Tail(names), r)

Without(t, i) == [j \in 1..(Len(t) - 1) |-> IF j < i THEN t[j] ELSE t[j + 1]]

RECURSIVE permutations(_)
\* itertools.permutations(t): every ordering of t, in lexicographic order of positions.
permutations(t) ==
    IF t = <<>> THEN << <<>> >>
    ELSE Concat([i \in 1..Len(t) |->
                    LET rest == permutations(Without(t, i))
                    IN  [j \in 1..Len(rest) |-> <<t[i]>> \o rest[j]]])

\* Mutant: the range stops one short, min(max_berth_changes + 1, len(silo_names)).
generate_route_plans_short(s, k) ==
    LET names == silo_names(s)
        stop  == Min(k + 1, Len(names))
    IN  Concat([num_berths \in 1..(stop - 1) |->
                    LET combos == combinations(names, num_berths)
                    IN  Concat([c \in 1..Len(combos) |-> permutations(combos[c])])])

\* Mutant: the longest routes are generated first.
generate_route_plans_longest_first(s, k) ==
    LET names == silo_names(s)
        stop  == Min(k + 2, Len(names) + 1)
    IN  Concat([j \in 1..(stop - 1) |->
                    LET combos == combinations(names, stop - j)
                    IN  Concat([c \in 1..Len(combos) |-> permutations(combos[c])])])

generate_route_plans(s, k) ==
    LET names == silo_names(s)
        stop  == Min(k + 2, Len(names) + 1)
    IN  Concat([num_berths \in 1..(stop - 1) |->
                    LET combos == combinations(names, num_berths)
                    IN  Concat([c \in 1..Len(combos) |-> permutations(combos[c])])])

GenerateRoutePlans(k) ==
    /\ generation' = [op |-> "generate_route_plans", max_berth_changes |-> k,
                      returned |-> generate_route_plans(silos, k)]
    /\ UNCHANGED <<silos, berth_change_cost_usd, delivery_capacity_per_berth,
                   query, evaluation, results>>

\* The sequences of distinct names of length n, over the first MaxSilos names.
NameOrders(n) ==
    { f \in [1..n -> { NamePool[i] : i \in 1..MaxSilos }] :
        \A i, j \in 1..n : i # j => f[i] # f[j] }

InitGen ==
    /\ \E n \in 0..MaxSilos : \E names \in NameOrders(n) :
          silos = [i \in 1..n |-> SiloData(names[i], DefaultCapacity, DefaultStock, DefaultUsage)]
    /\ berth_change_cost_usd = 0
    /\ delivery_capacity_per_berth = 0
    /\ query = NoCall
    /\ generation = NoCall
    /\ evaluation = NoCall
    /\ results = <<>>

NextGen == \E k \in 0..MaxBerthChanges : GenerateRoutePlans(k)

SpecGen == InitGen /\ [][NextGen]_vars

RECURSIVE Factorial(_)
Factorial(n) == IF n <= 0 THEN 1 ELSE n * Factorial(n - 1)

\* C(n, j) * j! = n! / (n - j)!
ArrangementCount(n, j) == Factorial(n) \div Factorial(n - j)

RECURSIVE RouteCount(_, _)
\* The sum over j = 1..upto of C(n, j) * j!
RouteCount(n, upto) == IF upto <= 0 THEN 0 ELSE ArrangementCount(n, upto) + RouteCount(n, upto - 1)

\* Every ordered arrangement of j distinct names out of the set `names`, for j in 1..upto.
Arrangements(names, upto) ==
    UNION { { r \in [1..j -> names] : \A a, b \in 1..j : a # b => r[a] # r[b] } : j \in 1..upto }

\* C1: generate_route_plans(k) returns exactly one route for every ordered
\* arrangement of j distinct silo names, j in 1..min(k+1, n), and nothing
\* else; the count is the sum of C(n,j)*j!, which is n routes of length 1 for
\* k = 0, 9 for n = 3 and k = 1, nothing for n = 0, and the count of k = n-1
\* for every k >= n-1.
C1RoutePlansAreTheArrangements ==
    generation.op = "generate_route_plans" =>
        LET plans == generation.returned
            k     == generation.max_berth_changes
            n     == Len(silos)
            names == { silos[i].name : i \in 1..n }
            upto  == Min(k + 1, n)
        IN  /\ { plans[i] : i \in 1..Len(plans) } = Arrangements(names, upto)
            /\ \A i, j \in 1..Len(plans) : i # j => plans[i] # plans[j]
            /\ Len(plans) = RouteCount(n, upto)
            /\ (k = 0 => Len(plans) = n /\ \A i \in 1..Len(plans) : Len(plans[i]) = 1)
            /\ (n = 3 /\ k = 1 => Len(plans) = 9)
            /\ (n = 0 => plans = <<>>)
            /\ (n >= 1 /\ k >= n - 1 => Len(plans) = RouteCount(n, n))

\* Three silos and one berth change: the nine routes, the six two-berth orderings among them.
C1Witness ==
    /\ generation.op = "generate_route_plans"
    /\ Len(silos) = 3
    /\ generation.max_berth_changes = 1
    /\ Len(generation.returned) = 9
    /\ Cardinality({ i \in 1..9 : Len(generation.returned[i]) = 2 }) = 6

-----------------------------------------------------------------------------
(* Dates: datetime.date, timedelta(days=...) and strftime('%Y-%m-%d').      *)
(* A string is the sequence of its characters.                             *)

IsLeapYear(y) == (y % 4 = 0 /\ y % 100 # 0) \/ y % 400 = 0

DaysInMonth(y, m) ==
    IF m = 2 THEN (IF IsLeapYear(y) THEN 29 ELSE 28)
    ELSE IF m \in {4, 6, 9, 11} THEN 30 ELSE 31

NextDate(d) ==
    IF d.day < DaysInMonth(d.year, d.month) THEN [d EXCEPT !.day = d.day + 1]
    ELSE IF d.month < 12 THEN [year |-> d.year, month |-> d.month + 1, day |-> 1]
    ELSE [year |-> d.year + 1, month |-> 1, day |-> 1]

RECURSIVE AddDays(_, _)
\* start_date + timedelta(days=n), n >= 0
AddDays(d, n) == IF n = 0 THEN d ELSE AddDays(NextDate(d), n - 1)

Digit(n) == <<"0", "1", "2", "3", "4", "5", "6", "7", "8", "9">>[n + 1]

\* strftime('%Y-%m-%d'): zero-padded year, month and day
strftime(d) ==
    << Digit((d.year \div 1000) % 10), Digit((d.year \div 100) % 10),
       Digit((d.year \div 10) % 10), Digit(d.year % 10), "-",
       Digit(d.month \div 10), Digit(d.month % 10), "-",
       Digit(d.day \div 10), Digit(d.day % 10) >>

NotApplicable == <<"N", "/", "A">>

\* The start dates tried: the days before a leap day and before a new year.
StartDates ==
    { [year |-> 2024, month |-> 2, day |-> 28],
      [year |-> 2025, month |-> 12, day |-> 30] }

-----------------------------------------------------------------------------
(* RouteOptimizer.evaluate_route *)

\* Mutant: the first stop is charged as well.
ChargeEveryStop(total_cost, i, cost) == total_cost + cost

\* The berth-change cost of position i (0-based): none for the first stop.
ChargeBerthChange(total_cost, i, cost) ==
    IF i > 0 THEN total_cost + cost ELSE total_cost

\* The detail entry of a stop that can be served.
ExecutableEntry(silo, berth_name, start_date, current_day, cap) ==
    LET delivery_date      == AddDays(start_date, current_day)
        available_capacity == get_available_capacity(silo, current_day)
        delivery_amount    == Min(cap, available_capacity)
    IN  [berth |-> berth_name,
         delivery_date |-> strftime(delivery_date),
         delivery_amount |-> delivery_amount,
         available_capacity |-> available_capacity,
         executable |-> TRUE]

\* The detail entry of the stop that cannot be served.
BlockedEntry(silo, berth_name, current_day) ==
    [berth |-> berth_name,
     delivery_date |-> NotApplicable,
     delivery_amount |-> 0,
     available_capacity |-> get_available_capacity(silo, current_day),
     executable |-> FALSE]

InfeasibleResult(route, details) ==
    [route |-> route, total_cost_usd |-> Infinity, total_cost_jpy |-> Infinity,
     feasible |-> FALSE, details |-> details]

FeasibleResult(route, total_cost, details) ==
    [route |-> route, total_cost_usd |-> total_cost, total_cost_jpy |-> total_cost * UsdJpyRate,
     feasible |-> TRUE, details |-> details]

\* Mutant: the day offset is not advanced.
StayOnDay(current_day) == current_day

\* The day offset after a stop that was served.
AdvanceDay(current_day) == current_day + 1

RECURSIVE evaluate_loop_continuing(_, _, _, _, _, _, _, _, _)
\* Mutant: the loop goes on after a stop that cannot be served.
evaluate_loop_continuing(s, cost, cap, route, start_date, i, total_cost, current_day, details) ==
    IF i >= Len(route)
    THEN IF \A p \in 1..Len(details) : details[p].executable
         THEN FeasibleResult(route, total_cost, details)
         ELSE InfeasibleResult(route, details)
    ELSE LET berth_name == route[i + 1]
             charged    == ChargeBerthChange(total_cost, i, cost)
             silo       == Lookup(s, berth_name)
         IN  IF is_available(silo, current_day, cap)
             THEN evaluate_loop_continuing(s, cost, cap, route, start_date, i + 1, charged,
                                           AdvanceDay(current_day),
                                           Append(details, ExecutableEntry(silo, berth_name,
                                                                           start_date,
                                                                           current_day, cap)))
             ELSE evaluate_loop_continuing(s, cost, cap, route, start_date, i + 1, charged,
                                           current_day,
                                           Append(details, BlockedEntry(silo, berth_name,
                                                                        current_day)))

RECURSIVE evaluate_loop(_, _, _, _, _, _, _, _, _)
\* The for loop from position i (0-based) on, with the loop's local state.
evaluate_loop(s, cost, cap, route, start_date, i, total_cost, current_day, details) ==
    IF i >= Len(route) THEN FeasibleResult(route, total_cost, details)
    ELSE LET berth_name == route[i + 1]
             charged    == ChargeBerthChange(total_cost, i, cost)
             silo       == Lookup(s, berth_name)
         IN  IF is_available(silo, current_day, cap)
             THEN evaluate_loop(s, cost, cap, route, start_date, i + 1, charged,
                                AdvanceDay(current_day),
                                Append(details, ExecutableEntry(silo, berth_name, start_date,
                                                                current_day, cap)))
             ELSE InfeasibleResult(route,
                                   Append(details, BlockedEntry(silo, berth_name, current_day)))

evaluate_route(s, cost, cap, route, start_date) ==
    evaluate_loop(s, cost, cap, route, start_date, 0, 0, 0, <<>>)

RECURSIVE Deliver(_, _)
\* The silos with every delivered amount of the details added to the stock of its berth.
Deliver(s, details) ==
    IF details = <<>> THEN s
    ELSE Deliver([i \in 1..Len(s) |->
                     IF s[i].name = Head(details).berth
                     THEN [s[i] EXCEPT !.current_stock = @ + Head(details).delivery_amount]
                     ELSE s[i]],
                 Tail(details))

\* Mutant: the simulated deliveries are written to the silos.
EvaluateRoutePersisting(route, start_date) ==
    /\ \A i \in 1..Len(route) : \E j \in 1..Len(silos) : silos[j].name = route[i]
    /\ \E res \in { evaluate_route(silos, berth_change_cost_usd,
                                    delivery_capacity_per_berth, route, start_date) } :
          /\ evaluation' = [op |-> "evaluate_route", route |-> route,
                            start_date |-> start_date, returned |-> res]
          /\ silos' = Deliver(silos, res.details)
    /\ UNCHANGED <<berth_change_cost_usd, delivery_capacity_per_berth,
                   query, generation, results>>

EvaluateRoute(route, start_date) ==
    /\ \A i \in 1..Len(route) : \E j \in 1..Len(silos) : silos[j].name = route[i]
    /\ evaluation' = [op |-> "evaluate_route", route |-> route, start_date |-> start_date,
                      returned |-> evaluate_route(silos, berth_change_cost_usd,
                                                  delivery_capacity_per_berth, route, start_date)]
    /\ UNCHANGED <<silos, berth_change_cost_usd, delivery_capacity_per_berth,
                   query, generation, results>>

\* The routes a caller may pass: any sequence of known names, repeats included.
Routes(s) ==
    UNION { [1..m -> { s[i].name : i \in 1..Len(s) }] : m \in 0..MaxRouteLen }

\* n silos named by the first n names, with any admissible amounts.
SiloMaps(n) ==
    { [i \in 1..n |-> SiloData(NamePool[i], c[i], st[i], u[i])] :
        c \in [1..n -> 0..MaxCapacity], st \in [1..n -> 0..MaxStock], u \in [1..n -> 0..MaxUsage] }

InitEval ==
    /\ \E n \in 1..MaxBerths : silos \in SiloMaps(n)
    /\ berth_change_cost_usd \in (0 - MaxCost)..MaxCost
    /\ delivery_capacity_per_berth \in 0..MaxDelivery
    /\ query = NoCall
    /\ generation = NoCall
    /\ evaluation = NoCall
    /\ results = <<>>

NextEval == \E route \in Routes(silos), start_date \in StartDates : EvaluateRoute(route, start_date)

SpecEval == InitEval /\ [][NextEval]_vars

-----------------------------------------------------------------------------
(* Calls of generate_route_plans and evaluate_route on one optimizer *)

\* The routes of the last plan are evaluated, in any order and any number of times.
Next ==
    \/ \E k \in 0..MaxBerthChanges : GenerateRoutePlans(k)
    \/ /\ generation.op = "generate_route_plans"
       /\ \E i \in 1..Len(generation.returned), start_date \in StartDates :
              EvaluateRoute(generation.returned[i], start_date)

Spec == InitEval /\ [][Next]_vars

-----------------------------------------------------------------------------
(* main(): the optimisation step *)

\* Mutant: an element goes before the elements of equal cost.
InsertBeforeEqual(sorted, x) ==
    LET before == { i \in 1..Len(sorted) : sorted[i].total_cost_usd < x.total_cost_usd }
        k      == Cardinality(before)
    IN  SubSeq(sorted, 1, k) \o <<x>> \o SubSeq(sorted, k + 1, Len(sorted))

\* x goes after every element whose cost is not greater: the order list.sort keeps among equal keys.
InsertByCost(sorted, x) ==
    LET before == { i \in 1..Len(sorted) : sorted[i].total_cost_usd <= x.total_cost_usd }
        k      == Cardinality(before)
    IN  SubSeq(sorted, 1, k) \o <<x>> \o SubSeq(sorted, k + 1, Len(sorted))

RECURSIVE SortPrefix(_, _)
\* The first n elements of rs in ascending cost, equal costs in their order in rs.
\* (The singleton set binds the sorted prefix to its value once.)
SortPrefix(rs, n) ==
    IF n = 0 THEN <<>>
    ELSE CHOOSE r \in { InsertByCost(sorted, rs[n]) : sorted \in { SortPrefix(rs, n - 1) } } : TRUE

\* results.sort(key=lambda x: x['total_cost_usd']): ascending and stable
SortByCost(rs) == SortPrefix(rs, Len(rs))

\* The results with feasible = true, in their order.
KeepFeasible(rs) == SelectSeq(rs, LAMBDA r : r.feasible)

RECURSIVE EvaluateAll(_, _, _, _, _)
\* The evaluation of every route of the plan, in the plan's order.
EvaluateAll(s, cost, cap, plans, start_date) ==
    IF plans = <<>> THEN <<>>
    ELSE <<evaluate_route(s, cost, cap, Head(plans), start_date)>>
             \o EvaluateAll(s, cost, cap, Tail(plans), start_date)

Optimize(k, start_date) ==
    /\ Len(silos) >= MinSilos
    /\ \E plans \in { generate_route_plans(silos, k) } :
       \E evaluated \in { EvaluateAll(silos, berth_change_cost_usd,
                                      delivery_capacity_per_berth, plans, start_date) } :
       \E kept \in { KeepFeasible(evaluated) } :
          /\ generation' = [op |-> "generate_route_plans", max_berth_changes |-> k,
                            returned |-> plans]
          /\ evaluation' = IF plans = <<>> THEN evaluation
                           ELSE [op |-> "evaluate_route", route |-> plans[Len(plans)],
                                 start_date |-> start_date,
                                 returned |-> evaluated[Len(plans)]]
          /\ results' = SortByCost(kept)
    /\ UNCHANGED <<silos, berth_change_cost_usd, delivery_capacity_per_berth, query>>

InitMain ==
    /\ \E n \in MinSilos..MaxBerths : silos \in SiloMaps(n)
    /\ berth_change_cost_usd \in (0 - MaxCost)..MaxCost
    /\ delivery_capacity_per_berth \in 0..MaxDelivery
    /\ query = NoCall
    /\ generation = NoCall
    /\ evaluation = NoCall
    /\ results = <<>>

NextMain ==
    \E k \in MinBerthChanges..MaxBerthChanges, start_date \in StartDates : Optimize(k, start_date)

SpecMain == InitMain /\ [][NextMain]_vars

-----------------------------------------------------------------------------
(* Calls of SiloData on a single silo *)

GetAvailableCapacity(i, d) ==
    /\ query' = [op |-> "get_available_capacity", silo |-> i, days |-> d,
                 returned |-> get_available_capacity(silos[i], d)]
    /\ UNCHANGED <<silos, berth_change_cost_usd, delivery_capacity_per_berth,
                   generation, evaluation, results>>

IsAvailable(i, d, r) ==
    /\ query' = [op |-> "is_available", silo |-> i, days |-> d, required |-> r,
                 returned |-> is_available(silos[i], d, r)]
    /\ UNCHANGED <<silos, berth_change_cost_usd, delivery_capacity_per_berth,
                   generation, evaluation, results>>

InitSilo ==
    /\ silos \in { <<v>> : v \in SiloValues(NamePool[1]) }
    /\ berth_change_cost_usd = 0
    /\ delivery_capacity_per_berth = 0
    /\ query = NoCall
    /\ generation = NoCall
    /\ evaluation = NoCall
    /\ results = <<>>

NextSilo ==
    \/ \E d \in 0..MaxDays : GetAvailableCapacity(1, d)
    \/ \E d \in 0..MaxDays, r \in 0..MaxDelivery : IsAvailable(1, d, r)

SpecSilo == InitSilo /\ [][NextSilo]_vars

\* C4: for a silo with non-negative capacity, current_stock and daily_usage,
\* get_available_capacity(d) is at least capacity - current_stock, at most
\* capacity, equal to capacity - current_stock at d = 0, and a call at a later
\* day offset never returns less than a call at an earlier one.
C4Range ==
    (query.op = "get_available_capacity") =>
        LET silo == silos[query.silo]
        IN  /\ query.returned >= silo.capacity - silo.current_stock
            /\ query.returned <= silo.capacity
            /\ (query.days = 0 => query.returned = silo.capacity - silo.current_stock)

C4Monotone ==
    (/\ query.op = "get_available_capacity"
     /\ query'.op = "get_available_capacity"
     /\ query'.silo = query.silo
     /\ query'.days >= query.days) => query'.returned >= query.returned

C4AvailableCapacityMonotoneBounded == [](C4Range) /\ [][C4Monotone]_vars

\* The stock has been projected down: a later offset returned strictly more than offset 0 would.
C4Witness ==
    /\ query.op = "get_available_capacity"
    /\ query.days > 0
    /\ query.returned > silos[query.silo].capacity - silos[query.silo].current_stock
    /\ query.returned = silos[query.silo].capacity

\* C5 as stated: get_available_capacity(d) is never negative for any silo the
\* data model admits (current_stock <= capacity not enforced).
C5NeverNegative ==
    (query.op = "get_available_capacity") => query.returned >= 0

\* C5 amended: for a silo with current_stock <= capacity,
\* get_available_capacity(d) is never negative.
C5NonNegativeWhenStockWithinCapacity ==
    (/\ query.op = "get_available_capacity"
     /\ silos[query.silo].current_stock <= silos[query.silo].capacity) => query.returned >= 0

\* A full silo (stock = capacity > 0) asked at a day offset where nothing has been used yet.
C5Witness ==
    /\ query.op = "get_available_capacity"
    /\ silos[query.silo].current_stock = silos[query.silo].capacity
    /\ silos[query.silo].capacity > 0
    /\ query.returned = 0

-----------------------------------------------------------------------------
(* Properties of evaluate_route *)

\* C2: a feasible result for a route of length m >= 1 has
\* total_cost_usd = (m - 1) * berth_change_cost_usd, whatever the silos are.
C2FeasibleCostIsBerthChanges ==
    (/\ evaluation.op = "evaluate_route"
     /\ evaluation.returned.feasible
     /\ Len(evaluation.route) >= 1) =>
        evaluation.returned.total_cost_usd = (Len(evaluation.route) - 1) * berth_change_cost_usd

\* A feasible three-stop route at a non-zero berth-change cost.
C2Witness ==
    /\ evaluation.op = "evaluate_route"
    /\ evaluation.returned.feasible
    /\ Len(evaluation.route) = 3
    /\ berth_change_cost_usd # 0
    /\ evaluation.returned.total_cost_usd = 2 * berth_change_cost_usd

\* The positions (1-based) of the route whose berth is not available at day offset position - 1.
FailingPositions(route) ==
    { i \in 1..Len(route) :
        ~is_available(Lookup(silos, route[i]), i - 1, delivery_capacity_per_berth) }

SetMin(S) == CHOOSE x \in S : \A y \in S : x <= y

\* C3: the result is infeasible iff some position fails is_available at the
\* offset the simulation reaches it with; then the details stop at the first
\* failing position, all executable but the last, which is not executable and
\* delivers 0; a feasible result has one executable entry per stop.
C3InfeasibleIffStopFails ==
    evaluation.op = "evaluate_route" =>
        LET route   == evaluation.route
            res     == evaluation.returned
            details == res.details
            failing == FailingPositions(route)
        IN  /\ res.feasible = FALSE <=> failing # {}
            /\ ~res.feasible =>
                   /\ Len(details) = SetMin(failing)
                   /\ \A i \in 1..(Len(details) - 1) : details[i].executable
                   /\ ~details[Len(details)].executable
                   /\ details[Len(details)].delivery_amount = 0
            /\ res.feasible =>
                   /\ Len(details) = Len(route)
                   /\ \A i \in 1..Len(details) : details[i].executable

\* A route that fails at its third stop after two stops were served.
C3Witness ==
    /\ evaluation.op = "evaluate_route"
    /\ ~evaluation.returned.feasible
    /\ Len(evaluation.route) = 3
    /\ Len(evaluation.returned.details) = 3
    /\ evaluation.returned.details[2].executable

\* C8: the berth at route index i is checked at day offset i: an executable
\* entry at index i carries the date start_date + i days and the berth's
\* available capacity at offset i, and the entry that stops the route carries
\* the available capacity at its own index.
C8DayOffsetIsIndex ==
    evaluation.op = "evaluate_route" =>
        LET details == evaluation.returned.details
        IN  \A p \in 1..Len(details) :
                LET silo == Lookup(silos, evaluation.route[p])
                IN  /\ details[p].berth = evaluation.route[p]
                    /\ details[p].available_capacity = get_available_capacity(silo, p - 1)
                    /\ details[p].executable =>
                           details[p].delivery_date = strftime(AddDays(evaluation.start_date, p - 1))
                    /\ details[p].executable =
                           is_available(silo, p - 1, delivery_capacity_per_berth)

\* A third stop served on the first day of the next month, at a berth whose
\* available capacity at offset 2 differs from the one at offset 0.
C8Witness ==
    /\ evaluation.op = "evaluate_route"
    /\ Len(evaluation.returned.details) = 3
    /\ evaluation.returned.details[3].executable
    /\ evaluation.returned.details[3].delivery_date[9] = "0"
    /\ evaluation.returned.details[3].delivery_date[10] = "1"
    /\ evaluation.returned.details[3].available_capacity #
           get_available_capacity(Lookup(silos, evaluation.route[3]), 0)

\* C10: an executable entry delivers exactly delivery_capacity_per_berth and
\* records an available capacity of at least that; a non-executable entry
\* delivers 0 and records an available capacity below it.
C10DeliveredAmount ==
    evaluation.op = "evaluate_route" =>
        LET details == evaluation.returned.details
        IN  \A p \in 1..Len(details) :
                IF details[p].executable
                THEN /\ details[p].delivery_amount = delivery_capacity_per_berth
                     /\ details[p].available_capacity >= delivery_capacity_per_berth
                ELSE /\ details[p].delivery_amount = 0
                     /\ details[p].available_capacity < delivery_capacity_per_berth

\* A served stop with more room than the delivery takes, then a stop with too little.
C10Witness ==
    /\ evaluation.op = "evaluate_route"
    /\ Len(evaluation.returned.details) = 2
    /\ evaluation.returned.details[1].executable
    /\ evaluation.returned.details[1].available_capacity > delivery_capacity_per_berth
    /\ ~evaluation.returned.details[2].executable
    /\ delivery_capacity_per_berth > 0

\* Two results of evaluate_route are the same.
SameResult(a, b) ==
    /\ a.route = b.route
    /\ a.feasible = b.feasible
    /\ a.details = b.details
    /\ (a.feasible /\ b.feasible) =>
           (a.total_cost_usd = b.total_cost_usd /\ a.total_cost_jpy = b.total_cost_jpy)

\* C7: no call of generate_route_plans or evaluate_route changes a silo's
\* name, capacity, current_stock or daily_usage, nor the optimizer's
\* berth_change_cost_usd or delivery_capacity_per_berth; so after every call
\* the last result of evaluate_route is still the one its route and start
\* date evaluate to, and a route evaluated again gives the result it gave.
C7Step ==
    /\ silos' = silos
    /\ berth_change_cost_usd' = berth_change_cost_usd
    /\ delivery_capacity_per_berth' = delivery_capacity_per_berth
    /\ evaluation'.op = "evaluate_route" =>
           SameResult(evaluation'.returned,
                      evaluate_route(silos', berth_change_cost_usd',
                                     delivery_capacity_per_berth',
                                     evaluation'.route, evaluation'.start_date))
    /\ (/\ evaluation.op = "evaluate_route"
        /\ evaluation'.route = evaluation.route
        /\ evaluation'.start_date = evaluation.start_date) =>
           SameResult(evaluation'.returned, evaluation.returned)

C7CallsLeaveOptimizerUnchanged == [][C7Step]_vars

\* A route with a positive delivery was evaluated, and a plan was generated after it.
C7Witness ==
    /\ evaluation.op = "evaluate_route"
    /\ evaluation.returned.feasible
    /\ Len(evaluation.route) = 2
    /\ evaluation.returned.details[2].delivery_amount > 0
    /\ generation.op = "generate_route_plans"
    /\ evaluation.route \notin { generation.returned[i] : i \in 1..Len(generation.returned) }

-----------------------------------------------------------------------------
(* Properties of the ranked list of main() *)

\* The positions of the last plan whose route evaluates as feasible.
FeasiblePlans ==
    { i \in 1..Len(generation.returned) :
        evaluate_route(silos, berth_change_cost_usd, delivery_capacity_per_berth,
                       generation.returned[i], evaluation.start_date).feasible }

PlanIndex(route) ==
    CHOOSE i \in 1..Len(generation.returned) : generation.returned[i] = route

\* C6: the ranked list holds exactly the feasible routes of the plan, once
\* each, in non-decreasing total_cost_usd, and results of equal cost are in
\* the order in which generate_route_plans emitted their routes.
C6RankedStableByCost ==
    (generation.op = "generate_route_plans" /\ generation.returned # <<>>) =>
        /\ \A i \in 1..Len(results) : results[i].feasible
        /\ { results[i].route : i \in 1..Len(results) } =
               { generation.returned[i] : i \in FeasiblePlans }
        /\ Len(results) = Cardinality(FeasiblePlans)
        /\ \A i, j \in 1..Len(results) :
               i < j =>
                   /\ results[i].total_cost_usd <= results[j].total_cost_usd
                   /\ results[i].total_cost_usd = results[j].total_cost_usd =>
                          PlanIndex(results[i].route) < PlanIndex(results[j].route)

\* Both two-berth orderings are feasible and tie at a negative cost, ahead of the single berths.
C6Witness ==
    /\ generation.op = "generate_route_plans"
    /\ berth_change_cost_usd < 0
    /\ Len(results) = 4
    /\ Len(results[1].route) = 2
    /\ Len(results[2].route) = 2
    /\ results[1].total_cost_usd = results[2].total_cost_usd
    /\ PlanIndex(results[1].route) < PlanIndex(results[2].route)

\* C9: when some generated route is feasible and berth_change_cost_usd >= 0,
\* the first result of the ranked list is a single-berth route of cost 0.
C9TopIsSingleBerthAtZeroCost ==
    (/\ generation.op = "generate_route_plans"
     /\ results # <<>>
     /\ berth_change_cost_usd >= 0) =>
        /\ Len(results[1].route) = 1
        /\ results[1].total_cost_usd = 0

\* A ranked list that holds a two-berth route as well, at zero berth-change cost.
C9Witness ==
    /\ generation.op = "generate_route_plans"
    /\ berth_change_cost_usd = 0
    /\ Len(results) >= 2
    /\ Len(results[1].route) = 1
    /\ \E i \in 1..Len(results) : Len(results[i].route) = 2

====
